---- MODULE Spec2Model ----
(***************************************************************************)
(* Bengaluru Navigator: the shortest-path engine of src/lib/dijkstra.ts.   *)
(* One call of dijkstra(graph, startNodeId, endNodeId) is modelled as a    *)
(* state machine over the function's locals; each action is one block of   *)
(* the function body (initialisation, one turn of the while loop head, one *)
(* forEach callback, the finished-node push, one hop of the path walk, the *)
(* terminal push) or one of the two places where the body throws.          *)
(***************************************************************************)
EXTENDS Integers, Sequences, FiniteSets, TLC

\* ------------------------------------------------------------------------
\* Bounds of the enumerated inputs
\* ------------------------------------------------------------------------
MaxWeight == 1
MaxEdges == 2

\* ------------------------------------------------------------------------
\* JavaScript values
\* ------------------------------------------------------------------------
\* `Infinity` (dijkstra.ts:37): larger than every finite sum of the inputs.
Infinity == 999
\* `null` and `undefined`, kept apart from every node identifier.
NULL == "<null>"
UNDEFINED == "<undefined>"

\* a + b on numbers, with Infinity absorbing (dijkstra.ts:88).
Plus(a, b) == IF a = Infinity \/ b = Infinity THEN Infinity ELSE a + b

\* ToBoolean of a string | null | undefined (the test of `while (current)`).
Truthy(v) == v # NULL /\ v # UNDEFINED /\ v # ""

\* obj[key] on a Record<string, T>: undefined for a key that was never set.
Lookup(obj, key) == IF key \in DOMAIN obj THEN obj[key] ELSE UNDEFINED

Last(s) == s[Len(s)]

\* ------------------------------------------------------------------------
\* Inputs: graphs, start and end identifiers
\* ------------------------------------------------------------------------
\* A Graph is modelled by the set of its node identifiers (the function reads
\* nothing else of a node but its name, and only for description texts) and
\* the list of its edges in the order graph.edges lists them.
NodePool == {"a", "b", ""}
UnknownId == "z"
Weights == 0 .. MaxWeight

\* The unordered pairs of the pool (self-loops included), one orientation each.
PoolPairs ==
    { <<"a", "a">>, <<"a", "b">>, <<"a", "">>,
      <<"b", "b">>, <<"", "b">>, <<"", "">> }

Edge(s, t, w) == [source |-> s, target |-> t, weight |-> w]

EdgeOptions == { Edge(p[1], p[2], w) : p \in PoolPairs, w \in Weights }

\* Every edge list of at most MaxEdges edges over the pool: duplicate edges,
\* self-loops, zero weights and disconnected nodes all occur.
GenericGraphs ==
    { [nodes |-> NodePool, edges |-> es] :
        es \in UNION { [1 .. k -> EdgeOptions] : k \in 0 .. MaxEdges } }

\* Triangles a-b, a-"", ""-b with every weight assignment over 0..2: the
\* direct edge can be beaten by the detour, leaving a stale queue entry.
TriangleWeights == {0, 1, 2}
TriangleGraphs ==
    { [nodes |-> NodePool,
       edges |-> << Edge("a", "b", w1), Edge("a", "", w2), Edge("", "b", w3) >>] :
        w1 \in TriangleWeights, w2 \in TriangleWeights, w3 \in TriangleWeights }

\* The same triangles on identifiers that are all non-empty strings.
NamedTriangleGraphs ==
    { [nodes |-> {"a", "b", "c"},
       edges |-> << Edge("a", "b", w1), Edge("a", "c", w2), Edge("c", "b", w3) >>] :
        w1 \in TriangleWeights, w2 \in TriangleWeights, w3 \in TriangleWeights }

\* Scenario A of the testable properties: the cycle AB=1, BC=2, CD=1, DA=4.
ScenarioA ==
    [nodes |-> {"A", "B", "C", "D"},
     edges |-> << Edge("A", "B", 1), Edge("B", "C", 2),
                  Edge("C", "D", 1), Edge("D", "A", 4) >>]

\* The cycle A-B-C-D-A with the chord A-C, under every weight assignment
\* over 0, 1, 3: three routes from A to C compete.
CycleWeights == {0, 1, 3}
ChordedCycleGraphs ==
    { [nodes |-> {"A", "B", "C", "D"},
       edges |-> << Edge("A", "B", w1), Edge("B", "C", w2), Edge("C", "D", w3),
                    Edge("D", "A", w4), Edge("A", "C", w5) >>] :
        w1 \in CycleWeights, w2 \in CycleWeights, w3 \in CycleWeights,
        w4 \in CycleWeights, w5 \in CycleWeights }

\* A graph whose second edge names an endpoint that is no node.
DanglingGraph ==
    [nodes |-> {"a", "b"},
     edges |-> << Edge("a", "b", 1), Edge("b", UnknownId, 1) >>]

\* ------------------------------------------------------------------------
\* Graph construction (the graph data module): const nodes, const edges,
\* calculateDistance, bengaluruGraph
\* ------------------------------------------------------------------------
\* A node literal of the data module: identifier and map position.  The
\* positions are chosen so that every distance between two of them is a
\* whole number (sides 5, 5 and 8).
RawNodes ==
    { [id |-> "a", x |-> 0, y |-> 0],
      [id |-> "b", x |-> 3, y |-> 4],
      [id |-> "", x |-> 0, y |-> 8] }

\* An edge literal of the data module: two identifiers, no weight yet.
RawEdge(s, t) == [source |-> s, target |-> t]

\* The edge lists given to the construction: every single edge between two
\* different identifiers, the unknown identifier included, and one list of
\* two edges.
RawEdgeLists ==
    { << RawEdge(p[1], p[2]) >> :
          p \in { q \in (NodePool \cup {UnknownId})
                          \X (NodePool \cup {UnknownId}) : q[1] # q[2] } }
        \cup { << RawEdge("a", "b"), RawEdge("b", "") >> }

\* nodes.find(n => n.id === id) finds a node (its result is not undefined).
Found(rawNodes, id) == \E n \in rawNodes : n.id = id

\* nodes.find(n => n.id === id) when it finds a node.
FindNode(rawNodes, id) == CHOOSE n \in rawNodes : n.id = id

\* Math.sqrt on the squares that occur.
Sqrt(n) == CHOOSE r \in 0 .. n : r * r = n

\* calculateDistance: 0 when an identifier names no node, the straight-line
\* distance otherwise.
CalculateDistance(rawNodes, node1Id, node2Id) ==
    LET node1 == FindNode(rawNodes, node1Id)
        node2 == FindNode(rawNodes, node2Id)
    IN  IF ~Found(rawNodes, node1Id) \/ ~Found(rawNodes, node2Id)
        THEN 0
        ELSE Sqrt((node1.x - node2.x) * (node1.x - node2.x)
                      + (node1.y - node2.y) * (node1.y - node2.y))

\* bengaluruGraph: the node list as it is, and every edge literal with its
\* computed weight (the edge's id field, which dijkstra never reads, is left
\* out of the model's edges).
BengaluruGraph(rawNodes, rawEdges) ==
    [nodes |-> { n.id : n \in rawNodes },
     edges |-> [i \in 1 .. Len(rawEdges) |->
                   Edge(rawEdges[i].source, rawEdges[i].target,
                        CalculateDistance(rawNodes, rawEdges[i].source,
                                          rawEdges[i].target))]]

\* The graphs the construction produces from the edge lists above.
ConstructedGraphs == { BengaluruGraph(RawNodes, l) : l \in RawEdgeLists }

GraphInputs ==
    GenericGraphs \cup TriangleGraphs \cup NamedTriangleGraphs
        \cup ChordedCycleGraphs \cup {ScenarioA, DanglingGraph}
        \cup ConstructedGraphs

\* Every edge endpoint is a node of the graph.
WellFormed(g) ==
    \A i \in 1 .. Len(g.edges) :
        g.edges[i].source \in g.nodes /\ g.edges[i].target \in g.nodes

VARIABLES
    graph,          \* the Graph argument: [nodes, edges]
    startNodeId,    \* the startNodeId argument
    endNodeId,      \* the endNodeId argument
    steps,          \* const steps: DijkstraStep[]
    distances,      \* const distances: Record<string, number>
    pq,             \* PriorityQueue.values
    previous,       \* const previous: Record<string, string | null>
    visited,        \* const visited = new Set<string>()
    adj,            \* const adj: Record<string, {nodeId, weight}[]>
    pc,             \* position in the function body
    currentNodeId,  \* the node dequeued by the running loop turn
    nbrIdx,         \* index of the next adj[currentNodeId] entry of forEach
    path,           \* const path: string[]
    current         \* let current: string | null

\* The state of the visualizer hook (use-dijkstra-visualizer.tsx:91-100) and
\* of its styling requests.
VARIABLES
    status,            \* useState<Status>('selecting-start')
    startNode,         \* useState<string | null>(null)
    endNode,           \* useState<string | null>(null)
    stepsState,        \* useState<DijkstraStep[]>([]): the hook's steps
    currentStepIndex,  \* useState(0)
    isPlaying,         \* useState(false)
    shortestPath,      \* useState<string[]>([])
    aiStyle,           \* useState<AIStyle | null>(null)
    toast,             \* title of the latest toast({...}) call
    pending,           \* optimizeRouteRendering calls awaited and not settled,
                       \* counted up to MaxPending
    settled,           \* how the call that settled last has ended
    unrendered,        \* the interval callback React has not rendered yet
    rebased,           \* status, isPlaying and currentStepIndex as the render
                       \* of that callback will commit them
    effectPending      \* the finished effect of the last commit has not run

hookVars ==
    << status, startNode, endNode, stepsState, currentStepIndex, isPlaying,
       shortestPath, aiStyle, toast, pending, settled, unrendered, rebased,
       effectPending >>

vars ==
    << graph, startNodeId, endNodeId, steps, distances, pq, previous,
       visited, adj, pc, currentNodeId, nbrIdx, path, current, status,
       startNode, endNode, stepsState, currentStepIndex, isPlaying,
       shortestPath, aiStyle, toast, pending, settled, unrendered, rebased,
       effectPending >>

inputs == << graph, startNodeId, endNodeId >>

\* ------------------------------------------------------------------------
\* PriorityQueue (dijkstra.ts:3-26)
\* ------------------------------------------------------------------------
\* Mutant of Compare: the operands are swapped, the sort is descending.
Compare_Descending(a, b) == b.distance - a.distance

\* The comparator of sort(): a.distance - b.distance.
Compare(a, b) == a.distance - b.distance

RECURSIVE InsertSorted(_, _)
InsertSorted(sorted, x) ==
    IF sorted = << >> THEN << x >>
    ELSE IF Compare(Head(sorted), x) <= 0
         THEN << Head(sorted) >> \o InsertSorted(Tail(sorted), x)
         ELSE << x >> \o sorted

\* Mutant of SortByDistance: enqueue forgets to sort (a FIFO queue).
SortByDistance_Unsorted(values) == values

\* Array.prototype.sort with the comparator above: a stable sort.
RECURSIVE SortByDistance(_)
SortByDistance(values) ==
    IF values = << >> THEN << >>
    ELSE InsertSorted(SortByDistance(SubSeq(values, 1, Len(values) - 1)),
                      values[Len(values)])

\* Mutant of Enqueue: the entry is put in front and the queue is not sorted.
Enqueue_Front(values, nodeId, distance) ==
    << [nodeId |-> nodeId, distance |-> distance] >> \o values

\* enqueue(nodeId, distance): push, then sort.
Enqueue(values, nodeId, distance) ==
    SortByDistance(Append(values, [nodeId |-> nodeId, distance |-> distance]))

\* Mutant of DequeuedEntry: pop() instead of shift() picks the last entry.
DequeuedEntry_Last(values) == values[Len(values)]

\* Mutant of AfterDequeue: the first entry is read and left in the queue.
AfterDequeue_Peek(values) == values

\* dequeue(): shift() returns the first entry and removes it.
DequeuedEntry(values) == Head(values)
AfterDequeue(values) == Tail(values)

\* clone(): a copy of the values array.
Clone(values) == values

\* Mutant of BuildAdj: each edge is entered under its source only.
RECURSIVE BuildAdj_Directed(_, _)
BuildAdj_Directed(a, es) ==
    IF es = << >> THEN a
    ELSE LET e == Head(es)
             a1 == [a EXCEPT ![e.source] =
                        Append(@, [nodeId |-> e.target, weight |-> e.weight])]
         IN  BuildAdj_Directed(a1, Tail(es))

\* ------------------------------------------------------------------------
\* Adjacency index (dijkstra.ts:36-45)
\* ------------------------------------------------------------------------
RECURSIVE BuildAdj(_, _)
BuildAdj(a, es) ==
    IF es = << >> THEN a
    ELSE LET e == Head(es)
             a1 == [a EXCEPT ![e.source] =
                        Append(@, [nodeId |-> e.target, weight |-> e.weight])]
             a2 == [a1 EXCEPT ![e.target] =
                        Append(@, [nodeId |-> e.source, weight |-> e.weight])]
         IN  BuildAdj(a2, Tail(es))

\* ------------------------------------------------------------------------
\* Step records (the description text is not modelled)
\* ------------------------------------------------------------------------
Step(type, cur, nbr, dist, vis, queue, p) ==
    [type |-> type, currentNodeId |-> cur, neighbor |-> nbr,
     distances |-> dist, visited |-> vis, queue |-> queue, path |-> p]

\* Mutant of InitialStep: the first step names the start node as current.
InitialStep_NamesStart(dist, vis, queue) ==
    Step("visiting", startNodeId, UNDEFINED, dist, vis, queue, UNDEFINED)

\* Lines 49-56: the initialization step.
InitialStep(dist, vis, queue) ==
    Step("visiting", NULL, UNDEFINED, dist, vis, queue, UNDEFINED)

\* Lines 69-76: the visiting step of a dequeued node.
VisitingStep(id, dist, vis, queue) ==
    Step("visiting", id, UNDEFINED, dist, vis, queue, UNDEFINED)

\* Lines 91-99 and 105-113: the neighbor-check step and the update step.
NeighborStep(id, nbr, dist, vis, queue) ==
    Step("neighbor", id, nbr, dist, vis, queue, UNDEFINED)

\* Mutant of FinishedNodeStep: the step is pushed as one more visiting step.
FinishedNodeStep_AsVisiting(id, dist, vis, queue) ==
    Step("visiting", id, UNDEFINED, dist, vis, queue, UNDEFINED)

\* Lines 117-124: the finished-node step.
FinishedNodeStep(id, dist, vis, queue) ==
    Step("finished-node", id, UNDEFINED, dist, vis, queue, UNDEFINED)

\* Lines 136-154: the terminal step; its queue field is the literal [].
PathStep(p, dist, vis) ==
    Step("path", NULL, UNDEFINED, dist, vis, << >>, p)

\* Mutant of PushStep: the pushed record keeps references to the live
\* tables instead of copies, so every earlier step shows the tables as they
\* are at the latest push.
PushStep_Aliased(log, step) ==
    Append([i \in 1 .. Len(log) |->
               [log[i] EXCEPT !.distances = step.distances,
                              !.visited = step.visited]],
           step)

\* steps.push({... distances: { ...distances }, visited: new Set(visited),
\* queue: pq.clone() }): the record holds copies, earlier records are kept.
PushStep(log, step) == Append(log, step)

\* ------------------------------------------------------------------------
\* Decisions of the function body
\* ------------------------------------------------------------------------
\* Mutant of InitialDistance: the source starts at Infinity like the rest.
InitialDistance_AllInfinity(id) == Infinity

\* distances[node.id] = node.id === startNodeId ? 0 : Infinity
InitialDistance(id) == IF id = startNodeId THEN 0 ELSE Infinity

\* Mutant of AddVisited: the set is replaced instead of extended.
AddVisited_Replace(vis, id) == {id}

\* visited.add(currentNodeId)
AddVisited(vis, id) == vis \cup {id}

\* Mutant of IsTarget: the early break is missing.
IsTarget_Never(id) == FALSE

\* if (currentNodeId === endNodeId) break;
IsTarget(id) == id = endNodeId

\* Mutant of ShouldUpdate: the comparison is missing.
ShouldUpdate_Always(distance, old) == TRUE

\* Mutant of ShouldUpdate: a candidate equal to the known distance updates.
ShouldUpdate_OrEqual(distance, old) == distance <= old

\* if (distance < distances[neighborId])
ShouldUpdate(distance, old) == distance < old

\* Mutant of SetPrevious: the two identifiers are swapped.
SetPrevious_Swapped(prev, neighborId, id) == [prev EXCEPT ![id] = neighborId]

\* Mutant of SetPrevious: the predecessor assignment is missing.
SetPrevious_Forgotten(prev, neighborId, id) == prev

\* previous[neighborId] = currentNodeId
SetPrevious(prev, neighborId, id) == [prev EXCEPT ![neighborId] = id]

\* Mutant of PathFound: any non-empty walk counts as a path.
PathFound_NonEmpty(p) == p # << >>

\* if (path[0] === startNodeId)
PathFound(p) == p # << >> /\ p[1] = startNodeId

\* aiStyle === null.
NullStyle == [null |-> TRUE]

\* No styling request has settled yet.
NoRequest == [transport |-> "none"]

\* No interval callback waits for its render.
NoRebase == [status |-> "none", isPlaying |-> FALSE, index |-> 0]

\* use-dijkstra-visualizer.tsx:91-100: the hook's state after the first
\* render; no toast was shown and no styling request was made.
HookInitialState ==
    /\ status = "selecting-start"
    /\ startNode = NULL
    /\ endNode = NULL
    /\ stepsState = << >>
    /\ currentStepIndex = 0
    /\ isPlaying = FALSE
    /\ shortestPath = << >>
    /\ aiStyle = NullStyle
    /\ toast = NULL
    /\ pending = 0
    /\ settled = NoRequest
    /\ unrendered = "none"
    /\ rebased = NoRebase
    /\ effectPending = FALSE

\* ------------------------------------------------------------------------
\* Actions
\* ------------------------------------------------------------------------
Init ==
    /\ graph \in GraphInputs
    /\ startNodeId \in graph.nodes \cup {UnknownId}
    /\ endNodeId \in graph.nodes \cup {UnknownId}
    /\ steps = << >>
    /\ distances = << >>
    /\ pq = << >>
    /\ previous = << >>
    /\ visited = {}
    /\ adj = << >>
    /\ pc = "init"
    /\ currentNodeId = NULL
    /\ nbrIdx = 0
    /\ path = << >>
    /\ current = NULL
    /\ HookInitialState

\* Lines 36-56: tables, adjacency index, first enqueue, initial step.
Initialise ==
    /\ pc = "init"
    /\ WellFormed(graph)
    /\ LET dist == [n \in graph.nodes |-> InitialDistance(n)]
           q == Enqueue(<< >>, startNodeId, 0)
       IN  /\ distances' = dist
           /\ previous' = [n \in graph.nodes |-> NULL]
           /\ adj' = BuildAdj([n \in graph.nodes |-> << >>], graph.edges)
           /\ pq' = q
           /\ steps' = PushStep(steps,
                   InitialStep(dist, visited, Clone(q)))
    /\ pc' = "loop"
    /\ UNCHANGED << inputs, visited, currentNodeId, nbrIdx, path, current >>
    /\ UNCHANGED hookVars

\* Lines 42-45 on an edge with an endpoint that is no node: adj[...] is
\* undefined and .push throws a TypeError out of dijkstra.
ThrowOnDanglingEdge ==
    /\ pc = "init"
    /\ ~WellFormed(graph)
    /\ pc' = "fault"
    /\ UNCHANGED << inputs, steps, distances, pq, previous, visited, adj,
                    currentNodeId, nbrIdx, path, current >>
    /\ UNCHANGED hookVars

\* Line 58 with an empty queue: the loop ends; lines 128-129.
LoopExit ==
    /\ pc = "loop"
    /\ pq = << >>
    /\ pc' = "reconstruct"
    /\ path' = << >>
    /\ current' = endNodeId
    /\ UNCHANGED << inputs, steps, distances, pq, previous, visited, adj,
                    currentNodeId, nbrIdx >>
    /\ UNCHANGED hookVars

\* Mutant of DequeueStale: the stale entry is handled like a fresh one and
\* its node gets another visiting step.
DequeueStale_Revisit ==
    /\ pc = "loop"
    /\ pq # << >>
    /\ DequeuedEntry(pq).nodeId \in visited
    /\ pq' = AfterDequeue(pq)
    /\ steps' = PushStep(steps,
            VisitingStep(DequeuedEntry(pq).nodeId, distances, visited,
                         Clone(AfterDequeue(pq))))
    /\ UNCHANGED << inputs, distances, previous, visited, adj, pc,
                    currentNodeId, nbrIdx, path, current >>
    /\ UNCHANGED hookVars

\* Lines 58-64: the dequeued node is already visited; continue.
DequeueStale ==
    /\ pc = "loop"
    /\ pq # << >>
    /\ DequeuedEntry(pq).nodeId \in visited
    /\ pq' = AfterDequeue(pq)
    /\ UNCHANGED << inputs, steps, distances, previous, visited, adj, pc,
                    currentNodeId, nbrIdx, path, current >>
    /\ UNCHANGED hookVars

\* Lines 58-80: dequeue an unvisited node, mark it, push its visiting step,
\* break when it is the target (then lines 128-129).
Visit ==
    /\ pc = "loop"
    /\ pq # << >>
    /\ DequeuedEntry(pq).nodeId \notin visited
    /\ LET id == DequeuedEntry(pq).nodeId
           q == AfterDequeue(pq)
           vis == AddVisited(visited, id)
       IN  /\ pq' = q
           /\ visited' = vis
           /\ currentNodeId' = id
           /\ steps' = PushStep(steps,
                   VisitingStep(id, distances, vis, Clone(q)))
           /\ IF IsTarget(id)
              THEN /\ pc' = "reconstruct"
                   /\ path' = << >>
                   /\ current' = endNodeId
                   /\ nbrIdx' = nbrIdx
              ELSE /\ pc' = "relax"
                   /\ nbrIdx' = 1
                   /\ UNCHANGED << path, current >>
    /\ UNCHANGED << inputs, distances, previous, adj >>
    /\ UNCHANGED hookVars

\* Line 82 when currentNodeId is no node of the graph: adj[currentNodeId] is
\* undefined and .forEach throws a TypeError out of dijkstra.
ThrowOnMissingAdj ==
    /\ pc = "relax"
    /\ currentNodeId \notin DOMAIN adj
    /\ pc' = "fault"
    /\ UNCHANGED << inputs, steps, distances, pq, previous, visited, adj,
                    currentNodeId, nbrIdx, path, current >>
    /\ UNCHANGED hookVars

\* Lines 82-115: one call of the forEach callback.
RelaxNeighbor ==
    /\ pc = "relax"
    /\ currentNodeId \in DOMAIN adj
    /\ nbrIdx <= Len(adj[currentNodeId])
    /\ LET neighborId == adj[currentNodeId][nbrIdx].nodeId
           weight == adj[currentNodeId][nbrIdx].weight
           distance == Plus(distances[currentNodeId], weight)
           check == NeighborStep(currentNodeId, neighborId,
                                 distances, visited, Clone(pq))
       IN  IF neighborId \in visited
           THEN UNCHANGED << steps, distances, previous, pq >>
           ELSE IF ShouldUpdate(distance, distances[neighborId])
                THEN LET dist == [distances EXCEPT ![neighborId] = distance]
                         q == Enqueue(pq, neighborId, distance)
                     IN  /\ distances' = dist
                         /\ previous' = SetPrevious(previous, neighborId, currentNodeId)
                         /\ pq' = q
                         /\ steps' = PushStep(PushStep(steps, check),
                                  NeighborStep(currentNodeId, neighborId,
                                               dist, visited, Clone(q)))
                ELSE /\ steps' = PushStep(steps, check)
                     /\ UNCHANGED << distances, previous, pq >>
    /\ nbrIdx' = nbrIdx + 1
    /\ UNCHANGED << inputs, visited, adj, pc, currentNodeId, path, current >>
    /\ UNCHANGED hookVars

\* Lines 117-124: forEach is over; push the finished-node step.
FinishNode ==
    /\ pc = "relax"
    /\ currentNodeId \in DOMAIN adj
    /\ nbrIdx > Len(adj[currentNodeId])
    /\ steps' = PushStep(steps,
           FinishedNodeStep(currentNodeId, distances, visited, Clone(pq)))
    /\ pc' = "loop"
    /\ UNCHANGED << inputs, distances, pq, previous, visited, adj,
                    currentNodeId, nbrIdx, path, current >>
    /\ UNCHANGED hookVars

\* Lines 130-133: one turn of `while (current)`.
ReconstructHop ==
    /\ pc = "reconstruct"
    /\ Truthy(current)
    /\ path' = << current >> \o path
    /\ current' = Lookup(previous, current)
    /\ UNCHANGED << inputs, steps, distances, pq, previous, visited, adj, pc,
                    currentNodeId, nbrIdx >>
    /\ UNCHANGED hookVars

\* Lines 135-157: the walk is over; push the terminal step and return.
EmitPath ==
    /\ pc = "reconstruct"
    /\ ~Truthy(current)
    /\ steps' = PushStep(steps,
           PathStep(IF PathFound(path) THEN path ELSE << >>, distances, visited))
    /\ pc' = "done"
    /\ UNCHANGED << inputs, distances, pq, previous, visited, adj,
                    currentNodeId, nbrIdx, path, current >>
    /\ UNCHANGED hookVars

Next ==
    \/ Initialise
    \/ ThrowOnDanglingEdge
    \/ LoopExit
    \/ DequeueStale
    \/ Visit
    \/ ThrowOnMissingAdj
    \/ RelaxNeighbor
    \/ FinishNode
    \/ ReconstructHop
    \/ EmitPath

Spec == Init /\ [][Next]_vars

\* ------------------------------------------------------------------------
\* Text (JavaScript strings as sequences of one-character strings)
\* ------------------------------------------------------------------------
NL == "\n"

UpperCaseLetters ==
    << "A", "B", "C", "D", "E", "F", "G", "H", "I", "J", "K", "L", "M",
       "N", "O", "P", "Q", "R", "S", "T", "U", "V", "W", "X", "Y", "Z" >>

LowerCaseLetters ==
    << "a", "b", "c", "d", "e", "f", "g", "h", "i", "j", "k", "l", "m",
       "n", "o", "p", "q", "r", "s", "t", "u", "v", "w", "x", "y", "z" >>

Digits == << "0", "1", "2", "3", "4", "5", "6", "7", "8", "9" >>

\* The set of the elements of a sequence.
Range(s) == { s[i] : i \in 1 .. Len(s) }

\* String.prototype.toLowerCase, one character.
ToLowerChar(c) ==
    IF c \in Range(UpperCaseLetters)
    THEN LowerCaseLetters[CHOOSE i \in 1 .. 26 : UpperCaseLetters[i] = c]
    ELSE c

\* String.prototype.toLowerCase.
ToLowerCase(s) == [i \in 1 .. Len(s) |-> ToLowerChar(s[i])]

\* String.prototype.split with a one-character separator.
RECURSIVE Split(_, _)
Split(s, sep) ==
    IF \E i \in 1 .. Len(s) : s[i] = sep
    THEN LET i == CHOOSE k \in 1 .. Len(s) :
                      /\ s[k] = sep
                      /\ \A j \in 1 .. k - 1 : s[j] # sep
         IN  << SubSeq(s, 1, i - 1) >> \o Split(SubSeq(s, i + 1, Len(s)), sep)
    ELSE << s >>

WhiteSpace == {" ", NL, "\t", "\r"}

\* String.prototype.trim.
RECURSIVE Trim(_)
Trim(s) ==
    IF s = << >> THEN s
    ELSE IF s[1] \in WhiteSpace THEN Trim(Tail(s))
    ELSE IF s[Len(s)] \in WhiteSpace THEN Trim(SubSeq(s, 1, Len(s) - 1))
    ELSE s

\* s.replace(/^-/, ''): a leading dash is removed.
StripLeadingDash(s) ==
    IF s # << >> /\ s[1] = "-" THEN Tail(s) ELSE s

\* String.prototype.includes.
Includes(s, sub) ==
    \E i \in 1 .. Len(s) - Len(sub) + 1 :
        SubSeq(s, i, i + Len(sub) - 1) = sub

HexLowerDigits == Range(Digits) \cup {"a", "b", "c", "d", "e", "f"}

\* value.match(/(#[0-9a-f]{6})/): the first match, or << >> for null.
MatchColor(value) ==
    LET hits == { i \in 1 .. Len(value) - 6 :
                      /\ value[i] = "#"
                      /\ \A j \in i + 1 .. i + 6 :
                            value[j] \in HexLowerDigits }
    IN  IF hits = {} THEN << >>
        ELSE LET i == CHOOSE k \in hits : \A h \in hits : k <= h
             IN  SubSeq(value, i, i + 6)

\* value.match(/(\d+)/): the first, longest run of digits, or << >> for
\* null.
MatchDigits(value) ==
    LET hits == { i \in 1 .. Len(value) : value[i] \in Range(Digits) }
    IN  IF hits = {} THEN << >>
        ELSE LET i == CHOOSE k \in hits : \A h \in hits : k <= h
                 j == CHOOSE k \in i .. Len(value) :
                          /\ \A h \in i .. k : value[h] \in Range(Digits)
                          /\ k = Len(value) \/ value[k + 1] \notin Range(Digits)
             IN  SubSeq(value, i, j)

\* parseInt(digits, 10) on a run of digits.
RECURSIVE ParseInt(_)
ParseInt(digits) ==
    IF digits = << >> THEN 0
    ELSE 10 * ParseInt(SubSeq(digits, 1, Len(digits) - 1))
             + (CHOOSE d \in 0 .. 9 : Digits[d + 1] = digits[Len(digits)])

\* ------------------------------------------------------------------------
\* The styling flow (optimize-route-rendering.ts) and parseAIStyle
\* ------------------------------------------------------------------------
\* '#20B2AA', the colour of the default styles.
DefaultColor == << "#", "2", "0", "B", "2", "A", "A" >>

\* interface AIStyle.
AIStyle(color, thickness, glow) ==
    [color |-> color, thickness |-> thickness, glow |-> glow]

\* The renderingInstructions the flow returns from its catch block.
FlowFallbackText ==
    << NL, "-", " ", "C", "o", "l", "o", "r", ":", " ", "#", "2", "0", "B",
       "2", "A", "A", " ", "(", "L", "i", "g", "h", "t", " ", "S", "e",
       "a", " ", "G", "r", "e", "e", "n", ")", NL, "-", " ", "L", "i", "n",
       "e", " ", "t", "h", "i", "c", "k", "n", "e", "s", "s", ":", " ",
       "4", " ", "p", "i", "x", "e", "l", "s", NL, "-", " ", "S", "p", "e",
       "c", "i", "a", "l", " ", "e", "f", "f", "e", "c", "t", "s", ":",
       " ", "g", "l", "o", "w", NL, " ", " ", " ", " ", " ", " ", " ",
       " " >>

\* A model answer: the example of the prompt.
ModelTextExample ==
    << "-", " ", "C", "o", "l", "o", "r", ":", " ", "#", "2", "0", "B",
       "2", "A", "A", " ", "(", "L", "i", "g", "h", "t", " ", "S", "e",
       "a", " ", "G", "r", "e", "e", "n", ")", NL, "-", " ", "L", "i", "n",
       "e", " ", "t", "h", "i", "c", "k", "n", "e", "s", "s", ":", " ",
       "3", " ", "p", "i", "x", "e", "l", "s", NL, "-", " ", "S", "p", "e",
       "c", "i", "a", "l", " ", "e", "f", "f", "e", "c", "t", "s", ":",
       " ", "A", "d", "d", " ", "a", " ", "s", "u", "b", "t", "l", "e",
       " ", "g", "l", "o", "w", " ", "e", "f", "f", "e", "c", "t", " ",
       "t", "o", " ", "t", "h", "e", " ", "l", "i", "n", "e", "." >>

\* A model answer without a colon after the key.
ModelTextNoColon ==
    << "C", "o", "l", "o", "r", " ", "#", "F", "F", "0", "0", "0", "0",
       ",", " ", "t", "h", "i", "c", "k", "n", "e", "s", "s", " ", "5" >>

\* What the model call of the flow can do: throw (no API key, no network),
\* give no output, or give a text.
PromptOutcomes ==
    { [kind |-> "throws"], [kind |-> "empty"],
      [kind |-> "text", text |-> ModelTextExample],
      [kind |-> "text", text |-> ModelTextNoColon] }

\* optimizeRouteRenderingFlow: the model's output, or the fallback text when
\* the call threw or gave no output.
OptimizeRouteRenderingFlow(outcome) ==
    IF outcome.kind = "text"
    THEN outcome.text
    ELSE FlowFallbackText

\* The result of a callback that threw.
THROWN == [thrown |-> TRUE]


\* The forEach callback of parseAIStyle on one instruction; value.match and
\* value.includes throw when the instruction has no colon.
ApplyInstruction(style, instruction) ==
    LET parts == Split(instruction, ":")
        key == Trim(parts[1])
        value == Trim(parts[2])
        undefined == Len(parts) < 2
    IN  IF Includes(key, << "c", "o", "l", "o", "r" >>)
        THEN IF undefined THEN THROWN
             ELSE IF MatchColor(value) # << >>
                  THEN [style EXCEPT !.color = MatchColor(value)]
                  ELSE style
        ELSE IF Includes(key, << "t", "h", "i", "c", "k", "n", "e", "s", "s" >>)
        THEN IF undefined THEN THROWN
             ELSE IF MatchDigits(value) # << >>
                  THEN [style EXCEPT
                           !.thickness = ParseInt(MatchDigits(value))]
                  ELSE style
        ELSE IF Includes(key, << "e", "f", "f", "e", "c", "t", "s" >>)
        THEN IF undefined THEN THROWN
             ELSE IF Includes(value, << "g", "l", "o", "w" >>)
                  THEN [style EXCEPT !.glow = TRUE]
                  ELSE style
        ELSE style

\* instructions.forEach(...): the style after all instructions, or THROWN.
RECURSIVE ApplyInstructions(_, _)
ApplyInstructions(style, instructions) ==
    IF instructions = << >> THEN style
    ELSE LET next == ApplyInstruction(style, Head(instructions))
         IN  IF next = THROWN THEN THROWN
             ELSE ApplyInstructions(next, Tail(instructions))

\* styleString.toLowerCase().split('\n').map(s => s.replace(/^-/, '').trim())
Instructions(styleString) ==
    LET lines == Split(ToLowerCase(styleString), NL)
    IN  [i \in 1 .. Len(lines) |-> Trim(StripLeadingDash(lines[i]))]

\* parseAIStyle.
ParseAIStyle(styleString) ==
    LET parsed == ApplyInstructions(AIStyle(DefaultColor, 3, FALSE),
                                    Instructions(styleString))
    IN  IF parsed = THROWN
        THEN AIStyle(DefaultColor, 4, TRUE)
        ELSE parsed

\* ------------------------------------------------------------------------
\* The visualizer hook (use-dijkstra-visualizer.tsx:89-295)
\* ------------------------------------------------------------------------
\* Styling requests awaited at once are counted up to this number, which
\* stands for itself or more.
MaxPending == 2

\* The graph given to the provider: two roads between a and b, the longer
\* one first, so that a node can be enqueued twice, and one node apart from
\* them.
HookGraph ==
    [nodes |-> {"a", "b", "c"},
     edges |-> << Edge("a", "b", 2), Edge("a", "b", 1) >>]

\* The ways an awaited optimizeRouteRendering call can end for the hook:
\* the server action rejects, or it resolves with what the flow returns
\* for an outcome of its model call.
Settlements ==
    { [transport |-> "rejects"] }
        \cup { [transport |-> "resolves", prompt |-> o] : o \in PromptOutcomes }

\* The variables of a dijkstra call when no call is running.
EngineIdle ==
    /\ steps' = << >>
    /\ distances' = << >>
    /\ pq' = << >>
    /\ previous' = << >>
    /\ visited' = {}
    /\ adj' = << >>
    /\ currentNodeId' = NULL
    /\ nbrIdx' = 0
    /\ path' = << >>
    /\ current' = NULL

engineVars ==
    << graph, startNodeId, endNodeId, steps, distances, pq, previous,
       visited, adj, pc, currentNodeId, nbrIdx, path, current >>

\* Lines 150-151: finalStep?.path ?? [].
FinalPath(log) ==
    IF log # << >> /\ Last(log).type = "path" THEN Last(log).path ELSE << >>

\* The variables status, isPlaying and currentStepIndex hold what the last
\* commit shows; the handlers close over them.  The interval callback runs
\* outside a React event: its updates wait for a render of their own, and a
\* click that arrives before it is rendered at once without them.
\* unrendered is "none" when no callback waits, "advanced" after line 203,
\* "finished" when the updater of lines 201-211 ran lines 206-208 as it was
\* dispatched, and "queued" when that updater waits to be run by the
\* render.  rebased holds the values the callback's render will commit: the
\* callback's updates followed by the updates of the clicks since.
Shown ==
    [status |-> status, isPlaying |-> isPlaying, index |-> currentStepIndex]

\* The updates of a click, kept for the render of the callback.
Queued(s) == IF unrendered = "none" THEN NoRebase ELSE s

\* Lines 117, 121, 122 on the values s.
ResetOn(s) == [status |-> "selecting-start", isPlaying |-> FALSE, index |-> 0]

\* Lines 239-241 on the values s.
SelectStartOn(s) ==
    [status |-> "selecting-end", isPlaying |-> FALSE, index |-> 0]

\* Lines 136-138 on the values s.
RunOn(s) == [status |-> "running", isPlaying |-> TRUE, index |-> 0]

\* Lines 258-264 on the values s: the index is set from the closure.
StepForwardOn(s) ==
    [status |-> IF currentStepIndex + 1 = Len(stepsState) - 1
                THEN "finished" ELSE "paused",
     isPlaying |-> FALSE,
     index |-> currentStepIndex + 1]

\* Lines 270-276 on the values s: the status is tested in the closure, the
\* index is lowered by an updater.
StepBackwardOn(s) ==
    [status |-> IF status = "finished" THEN "paused" ELSE s.status,
     isPlaying |-> FALSE,
     index |-> s.index - 1]

\* Line 287: paused at the end, in the closure.
Restart ==
    /\ ~isPlaying
    /\ currentStepIndex = Len(stepsState) - 1
    /\ Len(stepsState) > 0

\* Lines 283-294 on the values s: isPlaying is negated by an updater.
TogglePlayPauseOn(s) ==
    [status |-> IF isPlaying THEN "paused" ELSE "running",
     isPlaying |-> ~s.isPlaying,
     index |-> IF Restart THEN 0 ELSE s.index]

\* The commit of the values s.
Commit(s) ==
    /\ status' = s.status
    /\ isPlaying' = s.isPlaying
    /\ currentStepIndex' = s.index

\* One more awaited call.
InFlight(n) == IF n < MaxPending THEN n + 1 ELSE MaxPending

\* Lines 146-166 up to the await, in the closure of a render with steps log
\* and status st, after shortestPath `shown` and toast `said`: it stores the
\* final path and either starts a styling request or shows the 'No Path
\* Found' toast.
FetchAIStyleAndSetPath(log, st, shown, said) ==
    IF Len(log) = 0 \/ st # "finished"
    THEN /\ shortestPath' = shown
         /\ toast' = said
         /\ pending' = pending
    ELSE /\ shortestPath' = FinalPath(log)
         /\ IF Len(FinalPath(log)) > 0
            THEN pending' = InFlight(pending) /\ toast' = said
            ELSE pending' = pending /\ toast' = "No Path Found"

\* Lines 223-227 around the render of a click that commits steps log and
\* status st, the handler having set shortestPath `shown` and toast `said`:
\* the effect of the commit before, if it has not run yet, runs before the
\* render; the effect of the click's own commit runs with it when the status
\* or the steps have changed.
FinishedEffect(log, st, shown, said) ==
    /\ IF effectPending
       THEN FetchAIStyleAndSetPath(stepsState, "finished", shown, said)
       ELSE IF st = "finished" /\ (status # "finished" \/ log # stepsState)
            THEN FetchAIStyleAndSetPath(log, st, shown, said)
            ELSE /\ shortestPath' = shown
                 /\ toast' = said
                 /\ pending' = pending
    /\ effectPending' = FALSE

\* dijkstra-controls.tsx:72: the playback buttons are rendered.
ControlsShown == status \in {"running", "paused", "finished"}

\* Lines 233-235: a node click while the status is 'running' or 'paused'
\* returns at once.
HandleNodeClickIgnored ==
    /\ pc = "idle"
    /\ status = "running" \/ status = "paused"
    /\ UNCHANGED vars

\* Lines 233-242: a click that selects the start node (reset() first), then
\* the render of the click.
HandleNodeClickStart ==
    /\ pc = "idle"
    /\ status \notin {"running", "paused"}
    /\ status = "selecting-start" \/ status = "finished" \/ ~Truthy(startNode)
    /\ \E nodeId \in graph.nodes : startNode' = nodeId
    /\ endNode' = NULL
    /\ stepsState' = << >>
    /\ aiStyle' = NullStyle
    /\ Commit(SelectStartOn(Shown))
    /\ rebased' = Queued(SelectStartOn(rebased))
    /\ FinishedEffect(<< >>, "selecting-end", << >>, "Start node selected")
    /\ UNCHANGED << engineVars, settled, unrendered >>

\* Lines 243-247: a click on the start node while the end node is chosen.
HandleNodeClickSame ==
    /\ pc = "idle"
    /\ status = "selecting-end"
    /\ Truthy(startNode)
    /\ toast' = "Invalid Selection"
    /\ UNCHANGED << engineVars, status, startNode, endNode, stepsState,
                    currentStepIndex, isPlaying, shortestPath, aiStyle,
                    pending, settled, unrendered, rebased, effectPending >>

\* Lines 248-249 and 130-132: a click that selects the end node;
\* run(startNode, nodeId) calls dijkstra(graph, start, end).
HandleNodeClickEnd ==
    /\ pc = "idle"
    /\ status = "selecting-end"
    /\ Truthy(startNode)
    /\ \E nodeId \in graph.nodes \ {startNode} :
          /\ endNode' = nodeId
          /\ endNodeId' = nodeId
    /\ startNodeId' = startNode
    /\ pc' = "init"
    /\ UNCHANGED << graph, steps, distances, pq, previous, visited, adj,
                    currentNodeId, nbrIdx, path, current >>
    /\ UNCHANGED << status, startNode, stepsState, currentStepIndex,
                    isPlaying, shortestPath, aiStyle, toast, pending,
                    settled, unrendered, rebased, effectPending >>

\* Lines 133-138: dijkstra has returned its steps to run; then the render
\* of the click.
RunReturns ==
    /\ pc = "done"
    /\ stepsState' = steps
    /\ aiStyle' = NullStyle
    /\ Commit(RunOn(Shown))
    /\ rebased' = Queued(RunOn(rebased))
    /\ FinishedEffect(steps, "running", << >>, toast)
    /\ pc' = "idle"
    /\ EngineIdle
    /\ UNCHANGED << inputs, startNode, endNode, settled, unrendered >>

\* Mutant of NextIndex: a tick skips a step.
NextIndex_Skip(prev) == prev + 2

\* Line 203: return prev + 1.
NextIndex(prev) == prev + 1

\* Lines 198-203: the interval callback before the last step.
TimerAdvance ==
    /\ pc = "idle"
    /\ unrendered = "none"
    /\ isPlaying
    /\ status = "running"
    /\ currentStepIndex < Len(stepsState) - 1
    /\ unrendered' = "advanced"
    /\ rebased' = [Shown EXCEPT !.index = NextIndex(currentStepIndex)]
    /\ UNCHANGED << engineVars, status, startNode, endNode, stepsState,
                    currentStepIndex, isPlaying, shortestPath, aiStyle,
                    toast, pending, settled, effectPending >>

\* Lines 200-211: the interval callback at the last step.  React runs the
\* updater, with setIsPlaying(false) and setStatus('finished') inside it,
\* either as it is dispatched or in the render of the callback.
TimerFinish ==
    /\ pc = "idle"
    /\ unrendered = "none"
    /\ isPlaying
    /\ status = "running"
    /\ ~(currentStepIndex < Len(stepsState) - 1)
    /\ \/ /\ unrendered' = "finished"
          /\ rebased' = [Shown EXCEPT !.status = "finished",
                                      !.isPlaying = FALSE]
       \/ /\ unrendered' = "queued"
          /\ rebased' = Shown
    /\ UNCHANGED << engineVars, status, startNode, endNode, stepsState,
                    currentStepIndex, isPlaying, shortestPath, aiStyle,
                    toast, pending, settled, effectPending >>

\* What the render of the callback commits: lines 206-208 of a queued
\* updater are run by the render, after every update in the queues.
Rendered ==
    IF unrendered = "queued"
    THEN [rebased EXCEPT !.status = "finished", !.isPlaying = FALSE]
    ELSE rebased

\* The render of an interval callback commits; its effects are left for a
\* later task.
Render ==
    /\ pc = "idle"
    /\ unrendered # "none"
    /\ Commit(Rendered)
    /\ unrendered' = "none"
    /\ rebased' = NoRebase
    /\ effectPending' = (Rendered.status = "finished" /\ status # "finished")
    /\ UNCHANGED << engineVars, startNode, endNode, stepsState,
                    shortestPath, aiStyle, toast, pending, settled >>

\* Lines 223-227: the finished effect of the commit above runs.
RunEffects ==
    /\ pc = "idle"
    /\ effectPending
    /\ FetchAIStyleAndSetPath(stepsState, "finished", shortestPath, toast)
    /\ effectPending' = FALSE
    /\ UNCHANGED << engineVars, status, startNode, endNode, stepsState,
                    currentStepIndex, isPlaying, aiStyle, settled,
                    unrendered, rebased >>

\* Lines 256-266: stepForward, then the render of the click.
StepForward ==
    /\ pc = "idle"
    /\ ControlsShown
    /\ currentStepIndex < Len(stepsState) - 1
    /\ Commit(StepForwardOn(Shown))
    /\ rebased' = Queued(StepForwardOn(rebased))
    /\ FinishedEffect(stepsState, StepForwardOn(Shown).status, shortestPath,
                      toast)
    /\ UNCHANGED << engineVars, startNode, endNode, stepsState, aiStyle,
                    settled, unrendered >>

\* Lines 268-278: stepBackward, then the render of the click.
StepBackward ==
    /\ pc = "idle"
    /\ ControlsShown
    /\ currentStepIndex > 0
    /\ aiStyle' = NullStyle
    /\ Commit(StepBackwardOn(Shown))
    /\ rebased' = Queued(StepBackwardOn(rebased))
    /\ FinishedEffect(stepsState, StepBackwardOn(Shown).status, << >>, toast)
    /\ UNCHANGED << engineVars, startNode, endNode, stepsState, settled,
                    unrendered >>

\* Lines 280-295: togglePlayPause, then the render of the click.
TogglePlayPause ==
    /\ pc = "idle"
    /\ ControlsShown
    /\ status # "finished"
    /\ aiStyle' = IF Restart THEN NullStyle ELSE aiStyle
    /\ Commit(TogglePlayPauseOn(Shown))
    /\ rebased' = Queued(TogglePlayPauseOn(rebased))
    /\ FinishedEffect(stepsState, TogglePlayPauseOn(Shown).status,
                      IF Restart THEN << >> ELSE shortestPath, toast)
    /\ UNCHANGED << engineVars, startNode, endNode, stepsState, settled,
                    unrendered >>

\* Lines 115-125: reset, then the render of the click.
Reset ==
    /\ pc = "idle"
    /\ startNode' = NULL
    /\ endNode' = NULL
    /\ stepsState' = << >>
    /\ aiStyle' = NullStyle
    /\ Commit(ResetOn(Shown))
    /\ rebased' = Queued(ResetOn(rebased))
    /\ FinishedEffect(<< >>, "selecting-start", << >>, toast)
    /\ UNCHANGED << engineVars, settled, unrendered >>

\* Lines 156-168: the style after the try block; style stays null when the
\* awaited call rejects.
TryStyle(settlement) ==
    IF settlement.transport = "rejects"
    THEN NullStyle
    ELSE ParseAIStyle(OptimizeRouteRenderingFlow(settlement.prompt))

\* Lines 169-175: the catch block shows the toast.
CatchToast(settlement, shown) ==
    IF settlement.transport = "rejects"
    THEN "AI Feature Offline"
    ELSE shown

\* Mutant of FinallyStyle: the finally block stores the style as it is.
FinallyStyle_NoFallback(style) == style

\* Lines 176-182: if (!style) style = { '#20B2AA', 4, true }.
FinallyStyle(style) ==
    IF style = NullStyle THEN AIStyle(DefaultColor, 4, TRUE) ELSE style

\* Lines 166-183 after the await: an awaited styling call settles and the
\* rest of fetchAIStyleAndSetPath runs, whatever the status is by then.
StyleRequestSettles ==
    /\ pc = "idle"
    /\ pending > 0
    /\ \E settlement \in Settlements :
          /\ aiStyle' = FinallyStyle(TryStyle(settlement))
          /\ toast' = CatchToast(settlement, toast)
          /\ settled' = settlement
    /\ pending' \in IF pending = MaxPending
                    THEN {pending, pending - 1}
                    ELSE {pending - 1}
    /\ UNCHANGED << engineVars, status, startNode, endNode, stepsState,
                    currentStepIndex, isPlaying, shortestPath, unrendered,
                    rebased, effectPending >>

\* The hook is mounted with the graph and no dijkstra call is running.
HookInit ==
    /\ graph = HookGraph
    /\ startNodeId = NULL
    /\ endNodeId = NULL
    /\ steps = << >>
    /\ distances = << >>
    /\ pq = << >>
    /\ previous = << >>
    /\ visited = {}
    /\ adj = << >>
    /\ pc = "idle"
    /\ currentNodeId = NULL
    /\ nbrIdx = 0
    /\ path = << >>
    /\ current = NULL
    /\ HookInitialState

HookNext ==
    \/ HandleNodeClickIgnored
    \/ HandleNodeClickStart
    \/ HandleNodeClickSame
    \/ HandleNodeClickEnd
    \/ Initialise
    \/ LoopExit
    \/ DequeueStale
    \/ Visit
    \/ RelaxNeighbor
    \/ FinishNode
    \/ ReconstructHop
    \/ EmitPath
    \/ RunReturns
    \/ TimerAdvance
    \/ TimerFinish
    \/ Render
    \/ RunEffects
    \/ StepForward
    \/ StepBackward
    \/ TogglePlayPause
    \/ Reset
    \/ StyleRequestSettles

HookSpec == HookInit /\ [][HookNext]_vars

\* The user leaves a running playback alone: a new start node, the playback
\* buttons and reset are used only while the status is not 'running', no
\* interval callback waits for its render and no finished effect waits to
\* run.
BetweenPlaybacks ==
    /\ status # "running"
    /\ unrendered = "none"
    /\ ~effectPending

SelectStartBetweenPlaybacks == BetweenPlaybacks /\ HandleNodeClickStart

StepForwardBetweenPlaybacks == BetweenPlaybacks /\ StepForward

StepBackwardBetweenPlaybacks == BetweenPlaybacks /\ StepBackward

ResumeBetweenPlaybacks == BetweenPlaybacks /\ TogglePlayPause

ResetBetweenPlaybacks == BetweenPlaybacks /\ Reset

PlaybackNext ==
    \/ HandleNodeClickIgnored
    \/ HandleNodeClickSame
    \/ HandleNodeClickEnd
    \/ Initialise
    \/ LoopExit
    \/ DequeueStale
    \/ Visit
    \/ RelaxNeighbor
    \/ FinishNode
    \/ ReconstructHop
    \/ EmitPath
    \/ RunReturns
    \/ TimerAdvance
    \/ TimerFinish
    \/ Render
    \/ RunEffects
    \/ StyleRequestSettles
    \/ SelectStartBetweenPlaybacks
    \/ StepForwardBetweenPlaybacks
    \/ StepBackwardBetweenPlaybacks
    \/ ResumeBetweenPlaybacks
    \/ ResetBetweenPlaybacks

\* Lines 198-212: while isPlaying and the status is 'running' the interval
\* of 500 ms keeps calling its callback, React renders the updates the
\* callback has made, and runs the effects of what it has committed.
PlaybackSpec ==
    /\ HookInit
    /\ [][PlaybackNext]_vars
    /\ WF_vars(TimerAdvance \/ TimerFinish)
    /\ WF_vars(Render)
    /\ WF_vars(RunEffects)

\* ------------------------------------------------------------------------
\* Reference notions, computed from the graph alone
\* ------------------------------------------------------------------------
MinOf(S) == CHOOSE x \in S : \A y \in S : x <= y

\* The indices of the edges that join u to a node outside `seen`.
EdgesOut(u, seen) ==
    { i \in 1 .. Len(graph.edges) :
        \/ graph.edges[i].source = u /\ graph.edges[i].target \notin seen
        \/ graph.edges[i].target = u /\ graph.edges[i].source \notin seen }

OtherEnd(i, u) ==
    IF graph.edges[i].source = u THEN graph.edges[i].target
    ELSE graph.edges[i].source

\* Minimum, over all simple paths from u to t that avoid `seen`, of the
\* summed edge weights; Infinity when there is none.
RECURSIVE MinPath(_, _, _)
MinPath(u, t, seen) ==
    IF u = t THEN 0
    ELSE MinOf({Infinity} \cup
             { Plus(graph.edges[i].weight,
                    MinPath(OtherEnd(i, u), t, seen \cup {OtherEnd(i, u)})) :
                 i \in EdgesOut(u, seen) })

ShortestDistance == MinPath(startNodeId, endNodeId, {startNodeId})

Reachable == ShortestDistance < Infinity

\* Both identifiers name nodes of a graph whose edges all join nodes.
ValidCall ==
    /\ WellFormed(graph)
    /\ startNodeId \in graph.nodes
    /\ endNodeId \in graph.nodes

\* The least weight of an edge joining u and v; Infinity when none does.
EdgeWeight(u, v) ==
    MinOf({Infinity} \cup
        { graph.edges[i].weight : i \in
            { j \in 1 .. Len(graph.edges) :
                \/ graph.edges[j].source = u /\ graph.edges[j].target = v
                \/ graph.edges[j].source = v /\ graph.edges[j].target = u } })

RECURSIVE WalkWeight(_)
WalkWeight(p) ==
    IF Len(p) <= 1 THEN 0
    ELSE Plus(EdgeWeight(p[1], p[2]), WalkWeight(Tail(p)))

\* p runs from the start node to the end node along edges of the graph and
\* its weight is the shortest distance.
IsShortestPath(p) ==
    /\ p # << >>
    /\ p[1] = startNodeId
    /\ p[Len(p)] = endNodeId
    /\ \A i \in 1 .. Len(p) - 1 : EdgeWeight(p[i], p[i + 1]) < Infinity
    /\ WalkWeight(p) = ShortestDistance

PathSteps == { i \in 1 .. Len(steps) : steps[i].type = "path" }

\* ------------------------------------------------------------------------
\* C1
\* ------------------------------------------------------------------------
\* C1: when the call returns for a reachable pair of existing nodes, the
\* distance of the target in the terminal path step is the minimum over all
\* simple paths of the summed edge weights.
C1_TerminalDistanceIsShortest ==
    (pc = "done" /\ ValidCall /\ Reachable) =>
        /\ Last(steps).type = "path"
        /\ Last(steps).distances[endNodeId] = ShortestDistance

\* The cycle AB=1, BC=2, CD=1, DA=4 from A to C has returned distance 3.
C1_Witness ==
    /\ pc = "done"
    /\ graph = ScenarioA
    /\ startNodeId = "A"
    /\ endNodeId = "C"
    /\ Last(steps).distances["C"] = 3

\* ------------------------------------------------------------------------
\* C2
\* ------------------------------------------------------------------------
\* C2: the path of the terminal step is a shortest path from source to
\* target when the target is reachable, and the empty sequence otherwise.
C2_TerminalPathIsShortestPath ==
    (pc = "done" /\ ValidCall) =>
        /\ Last(steps).type = "path"
        /\ IF Reachable THEN IsShortestPath(Last(steps).path)
           ELSE Last(steps).path = << >>

\* ------------------------------------------------------------------------
\* C3
\* ------------------------------------------------------------------------
\* C3: a returned step sequence is non-empty, starts with the initialization
\* step (currentNodeId null, nothing visited, only the source queued) and
\* holds exactly one path step, which is its last element; no path step is
\* pushed before the return.
C3_TraceShape ==
    /\ steps # << >> =>
          /\ steps[1].currentNodeId = NULL
          /\ steps[1].type # "path"
          /\ steps[1].visited = {}
          /\ steps[1].queue = << [nodeId |-> startNodeId, distance |-> 0] >>
    /\ pc = "done" =>
          /\ steps # << >>
          /\ PathSteps = {Len(steps)}
    /\ pc # "done" => PathSteps = {}

\* A returned trace with node blocks between the initial and the path step.
C3_Witness ==
    /\ pc = "done"
    /\ Len(steps) > 4
    /\ Last(steps).type = "path"

\* ------------------------------------------------------------------------
\* C4
\* ------------------------------------------------------------------------
\* C4: with a source or target identifier that names no node, the call does
\* not throw and its terminal step is the no-path step with an empty path.
C4_UnknownIdentifierGivesNoPath ==
    (WellFormed(graph) /\ (startNodeId \notin graph.nodes \/ endNodeId \notin graph.nodes)) =>
        /\ pc # "fault"
        /\ pc = "done" =>
              /\ Last(steps).type = "path"
              /\ Last(steps).path = << >>

\* ------------------------------------------------------------------------
\* C5
\* ------------------------------------------------------------------------
\* C5: when the target is not connected to the source, the call never throws,
\* the target is never visited (no visiting step names it, no snapshot holds
\* it), the loop is left only with an empty queue, and the terminal step has
\* an empty path.
C5_UnreachableTargetHaltsNormally ==
    (ValidCall /\ ~Reachable) =>
        /\ pc # "fault"
        /\ endNodeId \notin visited
        /\ \A i \in 1 .. Len(steps) :
              /\ steps[i].currentNodeId # endNodeId
              /\ endNodeId \notin steps[i].visited
        /\ pc \in {"reconstruct", "done"} => pq = << >>
        /\ pc = "done" =>
              /\ Last(steps).type = "path"
              /\ Last(steps).path = << >>

\* A returned run whose target lies in another component than the source,
\* after the source's component was searched.
C5_Witness ==
    /\ ValidCall
    /\ ~Reachable
    /\ pc = "done"
    /\ Cardinality(visited) >= 2
    /\ Last(steps).path = << >>

\* ------------------------------------------------------------------------
\* C6
\* ------------------------------------------------------------------------
\* C6: when source and target are the same existing node, the returned trace
\* is the initialization step, the visiting step of the source and the
\* terminal step with path = [source] and distance 0, and nothing else.
C6_SourceEqualsTargetTrace ==
    (pc = "done" /\ ValidCall /\ startNodeId = endNodeId) =>
        /\ Len(steps) = 3
        /\ steps[1].type = "visiting" /\ steps[1].currentNodeId = NULL
        /\ steps[2].type = "visiting" /\ steps[2].currentNodeId = startNodeId
        /\ steps[3].type = "path"
        /\ steps[3].path = << startNodeId >>
        /\ steps[3].distances[startNodeId] = 0

\* ------------------------------------------------------------------------
\* C7
\* ------------------------------------------------------------------------
\* What a step of the run may do once the target is in the visited set.
C7_NothingAfterTarget ==
    endNodeId \in visited =>
        /\ UNCHANGED << distances, previous, visited, pq >>
        /\ steps' # steps =>
              /\ Last(steps).type = "visiting"
              /\ Last(steps).currentNodeId = endNodeId
              /\ Len(steps') = Len(steps) + 1
              /\ SubSeq(steps', 1, Len(steps)) = steps
              /\ Last(steps').type = "path"

\* C7: once the target is in the visited set, no step of the run changes the
\* distance table, the predecessor table, the visited set or the queue, and
\* the only step pushed is the terminal path step, directly after the
\* target's visiting step.
C7_EarlyTermination == [][C7_NothingAfterTarget]_vars

\* The target was visited while other entries were still queued, and the
\* call has returned.
C7_Witness ==
    /\ pc = "done"
    /\ ValidCall
    /\ startNodeId # endNodeId
    /\ endNodeId \in visited
    /\ pq # << >>
    /\ \E n \in graph.nodes : n \notin visited /\ distances[n] < Infinity

\* ------------------------------------------------------------------------
\* C8
\* ------------------------------------------------------------------------
\* C8: the visited snapshot of a step contains the visited snapshot of every
\* earlier step.
C8_VisitedOnlyGrows ==
    \A i \in 1 .. Len(steps) : \A j \in i + 1 .. Len(steps) :
        steps[i].visited \subseteq steps[j].visited

\* A trace in which the visited snapshot grew twice.
C8_Witness ==
    /\ steps # << >>
    /\ Cardinality(Last(steps).visited) >= 3
    /\ \E i \in 1 .. Len(steps) : Cardinality(steps[i].visited) = 1

\* ------------------------------------------------------------------------
\* C9
\* ------------------------------------------------------------------------
\* C9: for every node, the distance in a later step is at most the distance
\* in an earlier step, and equal to it once the node is in the earlier
\* step's visited snapshot.
C9_DistancesNonIncreasing ==
    \A i \in 1 .. Len(steps) : \A j \in i + 1 .. Len(steps) :
        \A n \in DOMAIN steps[i].distances :
            /\ n \in DOMAIN steps[j].distances
            /\ steps[j].distances[n] <= steps[i].distances[n]
            /\ n \in steps[i].visited =>
                  steps[j].distances[n] = steps[i].distances[n]

\* A node's finite distance was lowered by a later relaxation and the node
\* was then visited with the lower value.
C9_Witness ==
    \E i \in 1 .. Len(steps) : \E j \in i + 1 .. Len(steps) :
        \E n \in DOMAIN steps[i].distances :
            /\ steps[i].distances[n] < Infinity
            /\ steps[j].distances[n] < steps[i].distances[n]
            /\ n \in Last(steps).visited

\* ------------------------------------------------------------------------
\* C11
\* ------------------------------------------------------------------------
\* What a step of the run may do to the trace: the steps already pushed stay
\* as they are, and a pushed step shows the live tables of the moment of
\* its push (the check step of a relaxation that updates shows the tables
\* before the update).
C11_EarlierStepsKept ==
    /\ Len(steps') >= Len(steps)
    /\ SubSeq(steps', 1, Len(steps)) = steps
    /\ Len(steps') > Len(steps) =>
          /\ Last(steps').distances = distances'
          /\ Last(steps').visited = visited'
          /\ Last(steps').type # "path" => Last(steps').queue = pq'
    /\ Len(steps') = Len(steps) + 2 =>
          /\ steps'[Len(steps) + 1].distances = distances
          /\ steps'[Len(steps) + 1].visited = visited
          /\ steps'[Len(steps) + 1].queue = pq

\* C11: once a step is in the trace no later action of the run changes any
\* of its fields: a later relaxation, visited.add, enqueue or dequeue leaves
\* every earlier step equal to the live state at the moment it was pushed.
C11_SnapshotImmutability == [][C11_EarlierStepsKept]_vars

\* An early step still shows the tables of its moment after the live tables
\* moved on: the initialization step has an empty visited snapshot, a
\* one-entry queue and a distance the run later lowered.
C11_Witness ==
    /\ Len(steps) >= 2
    /\ steps[1].visited = {}
    /\ Len(steps[1].queue) = 1
    /\ Cardinality(visited) >= 2
    /\ pq # steps[1].queue
    /\ \E n \in DOMAIN distances :
          /\ n \in DOMAIN steps[1].distances
          /\ distances[n] < steps[1].distances[n]

\* ------------------------------------------------------------------------
\* C12
\* ------------------------------------------------------------------------
\* Step i of a trace is an update step: a neighbor step whose distance
\* snapshot differs from the one of the step before it.
IsUpdateStep(log, i) ==
    /\ i > 1
    /\ log[i].type = "neighbor"
    /\ log[i].distances # log[i - 1].distances

\* Step i is the visiting step of a node (the initialization step has the
\* same type and no node).
IsNodeVisit(log, i) ==
    log[i].type = "visiting" /\ log[i].currentNodeId # NULL

\* The claim as stated: every visiting step of a node is followed, after
\* neighbor steps only, by a finished-node step of the same node.
C12_EveryVisitEndsWithFinishedNode ==
    pc = "done" =>
        \A i \in 1 .. Len(steps) :
            IsNodeVisit(steps, i) =>
                \E j \in i + 1 .. Len(steps) :
                    /\ steps[j].type = "finished-node"
                    /\ steps[j].currentNodeId = steps[i].currentNodeId
                    /\ \A k \in i + 1 .. j - 1 : steps[k].type = "neighbor"

\* Whether step i + 1 may follow step i in a trace of a run with the given
\* target.
FollowsLifecycle(log, i, target) ==
    LET s == log[i]
        t == log[i + 1]
    IN  IF i = 1
        THEN IsNodeVisit(log, 2)
        ELSE CASE s.type = "visiting" ->
                     IF s.currentNodeId = target
                     THEN t.type = "path"
                     ELSE /\ t.type \in {"neighbor", "finished-node"}
                          /\ t.currentNodeId = s.currentNodeId
                          /\ ~IsUpdateStep(log, i + 1)
               [] s.type = "neighbor" ->
                     /\ t.type \in {"neighbor", "finished-node"}
                     /\ t.currentNodeId = s.currentNodeId
                     /\ IsUpdateStep(log, i + 1) =>
                           /\ ~IsUpdateStep(log, i)
                           /\ t.neighbor = s.neighbor
               [] s.type = "finished-node" ->
                     \/ t.type = "path"
                     \/ /\ IsNodeVisit(log, i + 1)
                        /\ t.currentNodeId # s.currentNodeId
               [] OTHER -> FALSE

\* C12 (amended): a trace is one initialization step, then node blocks, then
\* one terminal path step that ends it.  The block of a node other than the
\* target is its visiting step, neighbor-check steps of that node (each
\* optionally followed at once by one update step for the same neighbor)
\* and its finished-node step; the block of the target is its visiting step
\* alone, and the path step follows it directly.
C12_RunLifecycle ==
    /\ steps # << >> =>
          /\ steps[1].type = "visiting"
          /\ steps[1].currentNodeId = NULL
    /\ \A i \in 1 .. Len(steps) - 1 : FollowsLifecycle(steps, i, endNodeId)
    /\ pc = "done" => Last(steps).type = "path"
    /\ pc # "done" => \A i \in 1 .. Len(steps) : steps[i].type # "path"

\* A returned run with a full block (with an update step) before the
\* target's block, which is the visiting step alone.
C12_Witness ==
    /\ pc = "done"
    /\ Len(steps) >= 6
    /\ IsNodeVisit(steps, Len(steps) - 1)
    /\ steps[Len(steps) - 1].currentNodeId = endNodeId
    /\ steps[Len(steps) - 2].type = "finished-node"
    /\ \E i \in 2 .. Len(steps) : IsUpdateStep(steps, i)

\* ------------------------------------------------------------------------
\* C13
\* ------------------------------------------------------------------------
\* C13: the construction of a graph rejects an edge that names an endpoint
\* which is no node, so every constructed graph has both endpoints of every
\* edge among its nodes and no run that was started on a constructed graph
\* is stopped by a dangling endpoint while the adjacency index is built.
C13_ConstructionValidatesEdges ==
    (graph \in ConstructedGraphs /\ pc # "init") =>
        /\ WellFormed(graph)
        /\ ~(pc = "fault" /\ adj = << >> /\ steps = << >>)

\* ------------------------------------------------------------------------
\* C17
\* ------------------------------------------------------------------------
\* The tentative distance of the node of a visiting step at that instant:
\* its entry of the step's distance snapshot; a source that is no node of
\* the graph has no entry and was enqueued with distance 0 (line 47).
TentativeDistance(step) ==
    IF step.currentNodeId \in DOMAIN step.distances
    THEN step.distances[step.currentNodeId]
    ELSE 0

\* C17: at every visiting step of a node u, the tentative distance of u is
\* at most the distance of every entry left in the queue whose node is not
\* visited, and at most distances[v] of every node v not yet visited.
C17_GreedyExtraction ==
    \A i \in 1 .. Len(steps) :
        IsNodeVisit(steps, i) =>
            LET s == steps[i]
                d == TentativeDistance(s)
            IN  /\ \A k \in 1 .. Len(s.queue) :
                      s.queue[k].nodeId \notin s.visited =>
                          d <= s.queue[k].distance
                /\ \A v \in DOMAIN s.distances :
                      v \notin s.visited => d <= s.distances[v]

\* A node is visited at a positive distance while a farther entry of a node
\* not yet visited waits in the queue.
C17_Witness ==
    \E i \in 1 .. Len(steps) :
        /\ IsNodeVisit(steps, i)
        /\ TentativeDistance(steps[i]) > 0
        /\ \E k \in 1 .. Len(steps[i].queue) :
              /\ steps[i].queue[k].nodeId \notin steps[i].visited
              /\ steps[i].queue[k].distance > TentativeDistance(steps[i])

\* ------------------------------------------------------------------------
\* C18
\* ------------------------------------------------------------------------
\* The number of visiting steps of node n in a trace.
VisitCount(log, n) ==
    Cardinality({ i \in 1 .. Len(log) :
                      IsNodeVisit(log, i) /\ log[i].currentNodeId = n })

\* The number of update steps for neighbor n in a trace: the entries of n
\* that relaxations put into the queue.
UpdateCount(log, n) ==
    Cardinality({ i \in 1 .. Len(log) :
                      IsUpdateStep(log, i) /\ log[i].neighbor = n })

\* What the dequeue of an entry whose node is already visited does: the
\* entry alone leaves the queue, nothing else changes, and in the trace no
\* node has more than one visiting step.
C18_StaleEntryDiscarded ==
    /\ (pc = "loop" /\ pq # << >> /\ Head(pq).nodeId \in visited) =>
          /\ pq' = Tail(pq)
          /\ UNCHANGED << steps, distances, previous, visited >>
    /\ \A n \in visited' : VisitCount(steps', n) <= 1

\* C18: dequeuing an entry whose node is already visited removes only that
\* entry, pushes no step and changes neither the distance table, the
\* predecessor table nor the visited set; so each node has at most one
\* visiting step in a trace, even when the queue held several entries of it.
C18_LazyDeletion == [][C18_StaleEntryDiscarded]_vars

\* The queue held two entries of one node (it was updated twice), the node
\* was visited once, and its other entry was dequeued and discarded: the
\* queue ran empty and the loop ended there.
C18_Witness ==
    /\ pc = "done"
    /\ pq = << >>
    /\ endNodeId \notin visited
    /\ \E n \in visited :
          /\ UpdateCount(steps, n) >= 2
          /\ VisitCount(steps, n) = 1

\* ------------------------------------------------------------------------
\* C19
\* ------------------------------------------------------------------------
\* The queue next is the queue q with one more entry e.
OneMoreEntry(q, next, e) ==
    /\ Len(next) = Len(q) + 1
    /\ \E k \in 1 .. Len(next) :
          /\ next[k] = e
          /\ SubSeq(next, 1, k - 1) \o SubSeq(next, k + 1, Len(next)) = q

\* What the handling of one adjacency entry (v, w) of the node u in process
\* does.
C19_OneAdjacencyEntry ==
    (pc = "relax" /\ currentNodeId \in DOMAIN adj
         /\ nbrIdx <= Len(adj[currentNodeId])) =>
        LET u == currentNodeId
            v == adj[currentNodeId][nbrIdx].nodeId
            w == adj[currentNodeId][nbrIdx].weight
            n == Len(steps)
        IN  /\ nbrIdx' = nbrIdx + 1
            /\ u # endNodeId
            /\ v \in visited =>
                  UNCHANGED << steps, distances, previous, pq >>
            /\ v \notin visited =>
                  /\ Len(steps') > n
                  /\ steps'[n + 1].type = "neighbor"
                  /\ steps'[n + 1].currentNodeId = u
                  /\ steps'[n + 1].neighbor = v
                  /\ steps'[n + 1].distances = distances
                  /\ IF distances[u] + w < distances[v]
                     THEN /\ distances' =
                                 [distances EXCEPT ![v] = distances[u] + w]
                          /\ OneMoreEntry(pq, pq',
                                 [nodeId |-> v,
                                  distance |-> distances[u] + w])
                          /\ Len(steps') = n + 2
                          /\ steps'[n + 2].type = "neighbor"
                          /\ steps'[n + 2].currentNodeId = u
                          /\ steps'[n + 2].neighbor = v
                          /\ steps'[n + 2].distances = distances'
                          /\ steps'[n + 2].queue = pq'
                     ELSE /\ Len(steps') = n + 1
                          /\ UNCHANGED << distances, previous, pq >>

\* C19: while a non-target node u is processed, every adjacency entry (v, w)
\* of u with v not visited gets exactly one neighbor-check step (u, v),
\* improving or not; an update happens exactly when distances[u] + w is
\* strictly less than distances[v], and then distances[v] becomes
\* distances[u] + w, the entry (v, distances[u] + w) is enqueued and one
\* more step with the updated tables is pushed.  A zero-weight edge is
\* considered like any other; a visited neighbour produces no step.
C19_RelaxationRule == [][C19_OneAdjacencyEntry]_vars

\* A trace with an update over a zero-weight edge (distances[v] became
\* equal to distances[u]) and a check step that was not followed by an
\* update.
C19_Witness ==
    /\ \E i \in 2 .. Len(steps) :
          /\ IsUpdateStep(steps, i)
          /\ steps[i].distances[steps[i].neighbor] =
                 steps[i].distances[steps[i].currentNodeId]
    /\ \E j \in 2 .. Len(steps) - 1 :
          /\ steps[j].type = "neighbor"
          /\ ~IsUpdateStep(steps, j)
          /\ ~IsUpdateStep(steps, j + 1)

\* ------------------------------------------------------------------------
\* C20
\* ------------------------------------------------------------------------
\* What an action after the initialization may do to the two tables.
C20_TablesChangeTogether ==
    pc # "init" =>
        /\ DOMAIN distances' = DOMAIN distances
        /\ DOMAIN previous' = DOMAIN distances
        /\ \A v \in DOMAIN distances :
              /\ distances'[v] # distances[v] =>
                    previous'[v] = currentNodeId
              /\ previous'[v] # previous[v] =>
                    /\ distances'[v] # distances[v]
                    /\ previous'[v] = currentNodeId

\* C20: after the initialization, an action assigns previous[v] exactly when
\* it assigns distances[v], and the value assigned is the node being
\* processed.
C20_PredecessorFollowsDistance == [][C20_TablesChangeTogether]_vars

\* A node whose distance was updated twice and whose predecessor is the
\* node of the second update, not the source.
C20_Witness ==
    \E v \in DOMAIN previous :
        /\ UpdateCount(steps, v) >= 2
        /\ previous[v] # NULL
        /\ previous[v] # startNodeId
        /\ \E i \in 2 .. Len(steps) :
              /\ IsUpdateStep(steps, i)
              /\ steps[i].neighbor = v
              /\ steps[i].currentNodeId = previous[v]

\* ------------------------------------------------------------------------
\* C15
\* ------------------------------------------------------------------------
\* The styling request that settled last has failed: the awaited call
\* rejected, or the model call threw or gave no output inside the flow.
RequestFailed(settlement) ==
    \/ settlement.transport = "rejects"
    \/ /\ settlement.transport = "resolves"
       /\ settlement.prompt.kind \in {"throws", "empty"}

\* The claim as stated: when a failed styling request settles, the style
\* stored is exactly { color: '#20B2AA', thickness: 4, glow: true }.
C15_FailureStoresTheLiteralDefault ==
    (pending' < pending /\ RequestFailed(settled')) =>
        aiStyle' = AIStyle(DefaultColor, 4, TRUE)

\* The claim as stated, for every step of the hook.
C15_StylingFallbackAsStated == [][C15_FailureStoresTheLiteralDefault]_vars

\* What the settling of a failed styling request stores.
C15_FailureStoresDefault ==
    (pending' < pending /\ RequestFailed(settled')) =>
        /\ aiStyle' # NullStyle
        /\ aiStyle'.thickness = 4
        /\ aiStyle'.glow = TRUE
        /\ ToLowerCase(aiStyle'.color) = ToLowerCase(DefaultColor)
        /\ settled'.transport = "rejects" => aiStyle'.color = DefaultColor
        /\ settled'.transport = "resolves" =>
              aiStyle'.color = ToLowerCase(DefaultColor)

\* C15 (amended): when a styling request made for a finished playback with a
\* non-empty path fails, its settling stores a style, never null, with
\* thickness 4, glow true and the colour #20B2AA up to letter case: the
\* string '#20B2AA' when the awaited call rejected, the string '#20b2aa'
\* when the failure was absorbed inside the server flow.
C15_StylingFallback == [][C15_FailureStoresDefault]_vars

\* The playback is finished with a non-empty path, the model call of the
\* request threw inside the flow, and a style is stored.
C15_Witness ==
    /\ status = "finished"
    /\ shortestPath # << >>
    /\ pending = 0
    /\ settled.transport = "resolves"
    /\ settled.prompt.kind = "throws"
    /\ aiStyle # NullStyle

\* ------------------------------------------------------------------------
\* C16
\* ------------------------------------------------------------------------
\* What the settling of a styling request whose model call threw shows.
C16_ModelFailureShowsToast ==
    (/\ pending' < pending
     /\ settled'.transport = "resolves"
     /\ settled'.prompt.kind = "throws") =>
        toast' = "AI Feature Offline"

\* C16: when the model call of a styling request fails (no GEMINI_API_KEY),
\* the request's settling shows the 'AI Feature Offline' toast.
C16_OfflineToastOnModelFailure == [][C16_ModelFailureShowsToast]_vars

\* ------------------------------------------------------------------------
\* C21
\* ------------------------------------------------------------------------
\* C21: the initialization step has a distance entry for every node of the
\* graph and for nothing else, 0 for the source and Infinity for every
\* other node, an empty visited set and a queue that is exactly the one
\* entry (source, 0).
C21_InitializationStep ==
    steps # << >> =>
        /\ DOMAIN steps[1].distances = graph.nodes
        /\ \A n \in graph.nodes :
              steps[1].distances[n] = IF n = startNodeId THEN 0 ELSE Infinity
        /\ steps[1].visited = {}
        /\ steps[1].queue = << [nodeId |-> startNodeId, distance |-> 0] >>

\* The initialization step of a run whose source is a node of a graph with
\* other nodes, after the run has moved on from it.
C21_Witness ==
    /\ Len(steps) >= 4
    /\ startNodeId \in graph.nodes
    /\ steps[1].distances[startNodeId] = 0
    /\ \E n \in graph.nodes : steps[1].distances[n] = Infinity
    /\ distances # steps[1].distances

\* ------------------------------------------------------------------------
\* C22
\* ------------------------------------------------------------------------
\* What every push of a step does to its queue field.
C22_PushedQueueIsLiveQueue ==
    /\ Len(steps') > Len(steps) => Last(steps').queue = pq'
    /\ Len(steps') = Len(steps) + 2 => steps'[Len(steps) + 1].queue = pq

\* C22: the queue field of every step, the terminal step included, equals
\* the contents of the priority queue at the moment the step is pushed.
C22_QueueFieldIsQueueContents == [][C22_PushedQueueIsLiveQueue]_vars

\* ------------------------------------------------------------------------
\* C23
\* ------------------------------------------------------------------------
\* The adjacency entries an edge list gives node n when every edge (s, t, w)
\* counts in both directions: (t, w) under s, then (s, w) under t, in the
\* order of the edges, nothing left out.
RECURSIVE EntriesUnder(_, _)
EntriesUnder(n, es) ==
    IF es = << >> THEN << >>
    ELSE (IF Head(es).source = n
          THEN << [nodeId |-> Head(es).target, weight |-> Head(es).weight] >>
          ELSE << >>)
         \o (IF Head(es).target = n
             THEN << [nodeId |-> Head(es).source,
                      weight |-> Head(es).weight] >>
             ELSE << >>)
         \o EntriesUnder(n, Tail(es))

\* The edge e joins the same two nodes with the same weight as edge f.
SameEdge(e, f) ==
    /\ e.weight = f.weight
    /\ \/ e.source = f.source /\ e.target = f.target
       \/ e.source = f.target /\ e.target = f.source

\* The edge list without self-loops and without the later copies of an edge.
RECURSIVE WithoutCopies(_)
WithoutCopies(es) ==
    IF es = << >> THEN << >>
    ELSE LET rest == WithoutCopies(SubSeq(es, 1, Len(es) - 1))
             e == es[Len(es)]
         IN  IF \/ e.source = e.target
                \/ \E i \in 1 .. Len(es) - 1 : SameEdge(es[i], e)
             THEN rest
             ELSE Append(rest, e)

\* Minimum, over the simple paths from u to t in the edge list es that
\* avoid `seen`, of the summed weights; Infinity when there is none.
RECURSIVE MinPathIn(_, _, _, _)
MinPathIn(es, u, t, seen) ==
    IF u = t THEN 0
    ELSE MinOf({Infinity} \cup
             { Plus(es[i].weight,
                    MinPathIn(es, IF es[i].source = u THEN es[i].target
                                  ELSE es[i].source,
                              t,
                              seen \cup {es[i].source, es[i].target})) :
                 i \in { k \in 1 .. Len(es) :
                           \/ es[k].source = u /\ es[k].target \notin seen
                           \/ es[k].target = u /\ es[k].source \notin seen } })

\* C23: the adjacency index holds, for each edge (s, t, w), the entry (t, w)
\* under s and the entry (s, w) under t, copies included; so the terminal
\* distance of a run is the shortest distance of the undirected graph, the
\* same from source to target as from target to source, and the same as in
\* the graph without its duplicate edges and self-loops, and such edges do
\* not make a run on existing nodes fail.
C23_UndirectedSemantics ==
    /\ adj # << >> =>
          \A n \in graph.nodes : adj[n] = EntriesUnder(n, graph.edges)
    /\ (pc = "done" /\ ValidCall) =>
          /\ Last(steps).distances[endNodeId] =
                 MinPathIn(graph.edges, startNodeId, endNodeId, {startNodeId})
          /\ Last(steps).distances[endNodeId] =
                 MinPathIn(graph.edges, endNodeId, startNodeId, {endNodeId})
          /\ Last(steps).distances[endNodeId] =
                 MinPathIn(WithoutCopies(graph.edges), startNodeId,
                           endNodeId, {startNodeId})
    /\ ValidCall => pc # "fault"

\* A returned run that went over an edge from its target end to its source
\* end, on a graph with a self-loop or a copy of an edge.
C23_Witness ==
    /\ pc = "done"
    /\ ValidCall
    /\ startNodeId # endNodeId
    /\ Len(WithoutCopies(graph.edges)) < Len(graph.edges)
    /\ Last(steps).distances[endNodeId] < Infinity
    /\ \A i \in 1 .. Len(graph.edges) :
          graph.edges[i].source # startNodeId

\* ------------------------------------------------------------------------
\* C24
\* ------------------------------------------------------------------------
\* The sum of f over the set S.
RECURSIVE SumOver(_, _)
SumOver(f, S) ==
    IF S = {} THEN 0
    ELSE LET x == CHOOSE y \in S : TRUE
         IN  f[x] + SumOver(f, S \ {x})

\* How far the function body has come: initialization, main loop, path
\* reconstruction, returned or thrown.
PhaseRank ==
    CASE pc = "init" -> 3
      [] pc \in {"loop", "relax"} -> 2
      [] pc = "reconstruct" -> 1
      [] OTHER -> 0

\* The adjacency entries the running forEach has still to handle, plus one
\* for its end.
EntriesLeft ==
    IF pc = "relax" /\ currentNodeId \in DOMAIN adj
    THEN Len(adj[currentNodeId]) + 2 - nbrIdx
    ELSE 0

\* The hops the reconstruction walk can still make: the walk holds the
\* target and then nodes of the graph, each once.
HopsLeft ==
    IF pc = "reconstruct"
    THEN Cardinality(graph.nodes) + 2 - Len(path)
    ELSE 0

\* The measure of a state of the run, compared from the left.
Measure ==
    << PhaseRank, SumOver(distances, DOMAIN distances), Len(pq), EntriesLeft,
       HopsLeft >>

\* m is less than n in the order that compares from the left.
LexLess(m, n) ==
    \E i \in 1 .. Len(m) :
        /\ m[i] < n[i]
        /\ \A j \in 1 .. i - 1 : m[j] = n[j]

\* What every step of a run does: it lowers the measure, whose parts are
\* natural numbers, so no run has infinitely many steps; a run that is not
\* over can take a step; the main loop is left only with the target visited
\* or the queue empty, and the run ends with the terminal step pushed; a
\* call on existing nodes does not throw.
C24_StepLowersMeasure ==
    /\ \A i \in 1 .. Len(Measure) : Measure[i] \in Nat
    /\ LexLess(Measure', Measure)
    /\ pc' \in {"reconstruct", "done"} =>
          endNodeId \in visited' \/ pq' = << >>
    /\ pc' = "done" => Last(steps').type = "path"
    /\ ValidCall => pc' # "fault"

\* A run that has not returned or thrown can take a step.
C24_NotStuck == pc \notin {"done", "fault"} => ENABLED Next

\* C24: on every finite graph with non-negative weights (zero weights,
\* self-loops and duplicate edges included) the main loop ends, with the
\* target visited or the queue empty, and the terminal step is pushed then;
\* the entries enqueued are bounded because every enqueue lowers a distance.
C24_Termination == []C24_NotStuck /\ [][C24_StepLowersMeasure]_vars

\* A returned run on a graph with a zero-weight edge and a self-loop whose
\* queue held entries that were enqueued by updates.
C24_Witness ==
    /\ pc = "done"
    /\ ValidCall
    /\ \E i \in 1 .. Len(graph.edges) : graph.edges[i].weight = 0
    /\ \E i \in 1 .. Len(graph.edges) :
          graph.edges[i].source = graph.edges[i].target
    /\ \E i \in 2 .. Len(steps) : IsUpdateStep(steps, i)
    /\ Last(steps).type = "path"

\* ------------------------------------------------------------------------
\* C25
\* ------------------------------------------------------------------------
\* A notion of the predecessor table, not of the walk of lines 129-133: the
\* chain of entries previous[v], previous[previous[v]], ... comes to the
\* source without meeting a node of `seen` again.
RECURSIVE ReachesSource(_, _)
ReachesSource(v, seen) ==
    \/ v = startNodeId
    \/ /\ v \in DOMAIN previous
       /\ previous[v] # NULL
       /\ previous[v] \notin seen
       /\ ReachesSource(previous[v], seen \cup {previous[v]})

\* C25: at every point of a run, every node v other than the source with a
\* finite distance has a visited predecessor u joined to v by an edge of
\* weight w with distances[v] = distances[u] + w; the source has no
\* predecessor; and the predecessors of v lead to the source without
\* repeating a node.
C25_PredecessorTree ==
    distances # << >> =>
        /\ startNodeId \in DOMAIN previous => previous[startNodeId] = NULL
        /\ \A v \in DOMAIN distances :
              (v # startNodeId /\ distances[v] < Infinity) =>
                  /\ previous[v] \in visited
                  /\ previous[v] \in graph.nodes
                  /\ \E i \in 1 .. Len(graph.edges) :
                        /\ \/ /\ graph.edges[i].source = previous[v]
                              /\ graph.edges[i].target = v
                           \/ /\ graph.edges[i].target = previous[v]
                              /\ graph.edges[i].source = v
                        /\ distances[v] =
                               distances[previous[v]] + graph.edges[i].weight
                  /\ ReachesSource(v, {v})

\* A node whose predecessor has a predecessor of its own, after the node's
\* predecessor was changed by a second update.
C25_Witness ==
    \E v \in DOMAIN previous :
        /\ previous[v] # NULL
        /\ previous[v] # startNodeId
        /\ previous[previous[v]] = startNodeId
        /\ UpdateCount(steps, v) >= 2
        /\ v \in visited

\* ------------------------------------------------------------------------
\* C26
\* ------------------------------------------------------------------------
\* The entries of q are in ascending order of distance.
Ascending(q) ==
    \A k \in 1 .. Len(q) - 1 : q[k].distance <= q[k + 1].distance

\* C26: in every step the queue snapshot is in ascending order of distance
\* and no entry of a node is below that node's distance in the same step;
\* and while the main loop runs, every node not yet visited that has a
\* finite distance has a queue entry with exactly that distance.
C26_QueueInvariant ==
    /\ \A i \in 1 .. Len(steps) :
          /\ Ascending(steps[i].queue)
          /\ \A k \in 1 .. Len(steps[i].queue) :
                steps[i].queue[k].nodeId \in DOMAIN steps[i].distances =>
                    steps[i].queue[k].distance >=
                        steps[i].distances[steps[i].queue[k].nodeId]
    /\ pc \in {"loop", "relax"} =>
          /\ Ascending(pq)
          /\ \A n \in DOMAIN distances :
                (n \notin visited /\ distances[n] < Infinity) =>
                    \E k \in 1 .. Len(pq) :
                        pq[k] = [nodeId |-> n, distance |-> distances[n]]

\* A step whose queue holds two entries of one node not yet visited: the
\* current one and, behind it, a stale one with a greater distance.
C26_Witness ==
    \E i \in 1 .. Len(steps) :
        \E k \in 1 .. Len(steps[i].queue) :
            \E m \in k + 1 .. Len(steps[i].queue) :
                /\ steps[i].queue[k].nodeId = steps[i].queue[m].nodeId
                /\ steps[i].queue[k].nodeId \notin steps[i].visited
                /\ steps[i].queue[k].distance =
                       steps[i].distances[steps[i].queue[k].nodeId]
                /\ steps[i].queue[m].distance > steps[i].queue[k].distance

\* ------------------------------------------------------------------------
\* C27
\* ------------------------------------------------------------------------
\* C27: the distances of the nodes of successive visiting steps, each read
\* from its own step, never decrease, and the distance a node has in its
\* visiting step is its shortest distance from the source.
C27_VisitOrder ==
    \A i \in 1 .. Len(steps) :
        IsNodeVisit(steps, i) =>
            /\ \A j \in i + 1 .. Len(steps) :
                  IsNodeVisit(steps, j) =>
                      TentativeDistance(steps[i]) <=
                          TentativeDistance(steps[j])
            /\ steps[i].currentNodeId \in DOMAIN steps[i].distances =>
                  steps[i].distances[steps[i].currentNodeId] =
                      MinPathIn(graph.edges, startNodeId,
                                steps[i].currentNodeId, {startNodeId})

\* Three nodes were visited at growing distances, the last of them at a
\* distance below the first finite one it had.
C27_Witness ==
    \E i \in 1 .. Len(steps) : \E j \in i + 1 .. Len(steps) :
        \E k \in j + 1 .. Len(steps) :
            /\ IsNodeVisit(steps, i)
            /\ IsNodeVisit(steps, j)
            /\ IsNodeVisit(steps, k)
            /\ TentativeDistance(steps[i]) < TentativeDistance(steps[j])
            /\ TentativeDistance(steps[j]) < TentativeDistance(steps[k])
            /\ steps[k].distances[steps[k].currentNodeId] <
                   steps[j].distances[steps[k].currentNodeId]
            /\ steps[j].distances[steps[k].currentNodeId] < Infinity

\* ------------------------------------------------------------------------
\* C28
\* ------------------------------------------------------------------------
\* C28: aiStyle is non-null only while the status is 'finished': after a
\* reset, a stepBackward out of 'finished' or the click of a new start node
\* it stays null until the playback is finished again, also when a styling
\* request of the earlier 'finished' state settles afterwards.
C28_StyleOnlyWhileFinished ==
    aiStyle # NullStyle => status = "finished"

\* ------------------------------------------------------------------------
\* C29
\* ------------------------------------------------------------------------
\* C29: after any sequence of node clicks, timer ticks, stepForward,
\* stepBackward, togglePlayPause and reset, currentStepIndex is an index of
\* steps whenever steps is non-empty, it is the last index whenever the
\* status is 'finished', and isPlaying is true only when the status is
\* 'running'.
C29_PlaybackIndexAndFlags ==
    /\ stepsState # << >> =>
          /\ 0 <= currentStepIndex
          /\ currentStepIndex <= Len(stepsState) - 1
    /\ status = "finished" => currentStepIndex = Len(stepsState) - 1
    /\ isPlaying => status = "running"

\* ------------------------------------------------------------------------
\* C30
\* ------------------------------------------------------------------------
\* The playback has ended as the finished effect leaves it.
PlaybackEnded ==
    /\ status = "finished"
    /\ unrendered = "none"
    /\ ~effectPending
    /\ ~isPlaying
    /\ currentStepIndex = Len(stepsState) - 1
    /\ shortestPath = FinalPath(stepsState)

\* run() starts the playback at index 0; a step of a running playback that
\* moves the index moves it by exactly one, inside the trace; and a running
\* playback is left only at the last index, for 'finished', not playing.
C30_OneStepPerTick ==
    /\ (pc = "done" /\ status' = "running") =>
          currentStepIndex' = 0 /\ isPlaying'
    /\ (status = "running" /\ currentStepIndex' # currentStepIndex) =>
          /\ currentStepIndex' = currentStepIndex + 1
          /\ currentStepIndex' <= Len(stepsState) - 1
          /\ status' = "running"
    /\ (status = "running" /\ status' # "running") =>
          /\ status' = "finished"
          /\ ~isPlaying'
          /\ currentStepIndex' = Len(stepsState) - 1

\* No branch of handleNodeClick that changes state can be taken.
C30_ClickIgnored ==
    status \in {"running", "paused"} =>
        ~ENABLED (HandleNodeClickStart \/ HandleNodeClickSame
                    \/ HandleNodeClickEnd)

\* C30: after run, with the user leaving the playback alone and the timer
\* ticking, currentStepIndex goes from 0 to the last index by exactly one per
\* tick, then the status becomes 'finished' with isPlaying false and
\* shortestPath the path of the last step; a node click while the status is
\* 'running' or 'paused' changes no state.
C30_PlaybackLiveness ==
    /\ [][C30_OneStepPerTick]_vars
    /\ []C30_ClickIgnored
    /\ (status = "running") ~> PlaybackEnded

\* A playback was ticked from 0 to the last step of a trace that ends with a
\* path, and has ended.
C30_Witness ==
    /\ PlaybackEnded
    /\ Len(stepsState) > 3
    /\ shortestPath # << >>
    /\ pending > 0

====
